---------------------------- MODULE Spec2Model ----------------------------
(***************************************************************************)
(* Model of the /api/v1/ask service: the lazily constructed, lru_cache'd   *)
(* LLMClient dependency, the AskRequest schema, LLMClient.ask (clamping,   *)
(* the single provider call, text and usage extraction, error             *)
(* classification) and the ask_llm handler with the global error handler. *)
(*                                                                         *)
(* Python values are tagged records: None, PyStr(s) (s a sequence of      *)
(* characters), PyInt(n), PyBool(b), PyFloat(n), PyList(items) and         *)
(* PyObj(attrs), an object whose attributes are the domain of attrs.      *)
(***************************************************************************)
EXTENDS Integers, Sequences, FiniteSets, TLC

VARIABLES
    started,     \* startup_event has run
    apiKey,      \* settings.GEMINI_API_KEY is set
    cache,       \* lru_cache slot of get_llm_client: 0 = empty, else instance id
    constructed, \* number of LLMClient instances successfully constructed
    attempts,    \* number of LLMClient() constructions attempted
    failures,    \* number of LLMClient() constructions that raised
    pc,          \* per request: position in the request's life cycle
    body,        \* per request: the max_tokens member of the JSON body
    client,      \* per request: the LLMClient instance injected by Depends
    sent,        \* per request: max_output_tokens passed to generate_content
    genCalls,    \* per request: number of generate_content invocations
    raised,      \* per request: the LLMServiceError at its point of detection
    response,    \* per request: the HTTP response
    clampIn,     \* _clamp_max_tokens under test: argument
    clampOut,    \* _clamp_max_tokens under test: result
    askIn,       \* LLMClient.ask under test: provider behaviour
    askPc,       \* LLMClient.ask under test: position
    askCalls,    \* LLMClient.ask under test: generate_content invocations
    askOut,      \* LLMClient.ask under test: outcome
    askResp      \* LLMClient.ask under test: the response ask_llm builds from it

serverVars == <<started, apiKey, cache, constructed, attempts, failures, pc, body,
                client, sent, genCalls, raised, response>>
clampVars == <<clampIn, clampOut>>
askVars == <<askIn, askPc, askCalls, askOut, askResp>>
vars == <<serverVars, clampVars, askVars>>

---------------------------------------------------------------------------
(* Bounds *)

NReq == 2          \* requests the process receives
MaxProbe == 30     \* integers probed on each side of the clamp limits
MaxParts == 3      \* content parts of a candidate
MaxCands == 2      \* candidates of a response
MaxTok == 1        \* largest token count a usage alias reports

(* Program constants *)

DEFAULT_MAX_TOKENS == 1024
MAX_ALLOWED_TOKENS == 100000
MIN_ALLOWED_TOKENS == 1
FIELD_DEFAULT == 10000
FIELD_GE == 1
FIELD_LE == 100000
HTTP_200_OK == 200
HTTP_422_UNPROCESSABLE == 422
HTTP_500_INTERNAL_SERVER_ERROR == 500
HTTP_502_BAD_GATEWAY == 502

---------------------------------------------------------------------------
(* Python values *)

None == [k |-> "none"]
PyStr(s) == [k |-> "str", s |-> s]
PyInt(n) == [k |-> "int", n |-> n]
PyBool(b) == [k |-> "bool", b |-> b]
PyFloat(n) == [k |-> "float", n |-> n]
PyList(items) == [k |-> "list", items |-> items]
PyObj(attrs) == [k |-> "obj", attrs |-> attrs]
NoAttrs == <<>>

\* bool(v)
Truthy(v) ==
    CASE v.k = "none" -> FALSE
      [] v.k = "str" -> Len(v.s) > 0
      [] v.k = "int" -> v.n # 0
      [] v.k = "bool" -> v.b
      [] v.k = "float" -> TRUE
      [] v.k = "list" -> Len(v.items) > 0
      [] v.k = "obj" -> TRUE

\* a or b
PyOr(a, b) == IF Truthy(a) THEN a ELSE b

\* isinstance(v, int): bool is a subclass of int
IsInstanceInt(v) == v.k \in {"int", "bool"}

\* the numeric value of an int or bool
IntValue(v) == IF v.k = "bool" THEN (IF v.b THEN 1 ELSE 0) ELSE v.n

\* hasattr(o, name) and getattr(o, name, default)
HasAttr(o, name) == o.k = "obj" /\ name \in DOMAIN o.attrs
GetAttr(o, name, default) == IF HasAttr(o, name) THEN o.attrs[name] ELSE default

\* outcomes of a call
Return(v) == [t |-> "return", value |-> v]
Raise(e) == [t |-> "raise", exc |-> e]
PyExc(type) == [type |-> type]

\* LLMServiceError(message): message and status_code are what the handlers read
LLMServiceError(message) ==
    [type |-> "LLMServiceError", message |-> message,
     status_code |-> HTTP_502_BAD_GATEWAY]

IsServiceError(e) == e.type = "LLMServiceError"

---------------------------------------------------------------------------
(* LLMClient._clamp_max_tokens *)

ClampNoUpper(max_tokens) ==
    IF ~IsInstanceInt(max_tokens) THEN PyInt(DEFAULT_MAX_TOKENS)
    ELSE IF IntValue(max_tokens) < MIN_ALLOWED_TOKENS THEN PyInt(MIN_ALLOWED_TOKENS)
    ELSE max_tokens

_clamp_max_tokens(max_tokens) ==
    IF ~IsInstanceInt(max_tokens) THEN PyInt(DEFAULT_MAX_TOKENS)
    ELSE IF IntValue(max_tokens) < MIN_ALLOWED_TOKENS THEN PyInt(MIN_ALLOWED_TOKENS)
    ELSE IF IntValue(max_tokens) > MAX_ALLOWED_TOKENS THEN PyInt(MAX_ALLOWED_TOKENS)
    ELSE max_tokens

---------------------------------------------------------------------------
(* LLMClient.ask: the messages of the errors it raises *)

MsgNoCandidates == [text |-> "Gemini did not return any candidates.", arg |-> None]
MsgNoText(finish_reason) == [text |-> "Gemini returned no text (finish_reason=", arg |-> finish_reason]
MsgApiError(e) == [text |-> "Gemini API error: ", arg |-> e]

(* LLMClient.ask: text extraction from the first candidate *)

\* the same loop overwriting instead of appending: only one text survives
RECURSIVE CollectTextLast(_)
CollectTextLast(items) ==
    IF items = <<>> THEN <<>>
    ELSE LET part == Head(items)
             rest == CollectTextLast(Tail(items))
         IN IF HasAttr(part, "text") /\ Truthy(part.attrs["text"])
            THEN (IF rest = <<>> THEN <<part.attrs["text"]>> ELSE rest)
            ELSE rest

\* the loop over candidate.content.parts: the truthy text values, in order
RECURSIVE CollectText(_)
CollectText(items) ==
    IF items = <<>> THEN <<>>
    ELSE LET part == Head(items)
             rest == CollectText(Tail(items))
         IN IF HasAttr(part, "text") /\ Truthy(part.attrs["text"])
            THEN <<part.attrs["text"]>> \o rest
            ELSE rest

\* "".join(parts)
RECURSIVE JoinStr(_)
JoinStr(texts) ==
    IF texts = <<>> THEN <<>> ELSE Head(texts).s \o JoinStr(Tail(texts))

Join(texts) ==
    IF \A i \in 1..Len(texts) : texts[i].k = "str"
    THEN Return(PyStr(JoinStr(texts)))
    ELSE Raise(PyExc("TypeError"))

\* lines 85-89: parts collected from candidate.content.parts
PartsOf(candidate) ==
    LET content == GetAttr(candidate, "content", None)
        cparts == GetAttr(content, "parts", None)
    IN IF Truthy(content) /\ Truthy(cparts)
       THEN (IF cparts.k = "list" THEN Return(CollectText(cparts.items))
             ELSE IF cparts.k = "str" THEN Return(<<>>)
             ELSE Raise(PyExc("TypeError")))
       ELSE Return(<<>>)

\* lines 91-95: the fallback accessor candidate.text
WithFallback(candidate, parts) ==
    LET candidate_text == GetAttr(candidate, "text", None)
    IN IF parts = <<>> /\ Truthy(candidate_text) THEN <<candidate_text>> ELSE parts

(* LLMClient.ask: usage extraction *)

PromptAliases == <<"prompt_token_count", "prompt_tokens">>
CompletionAliases == <<"candidates_token_count", "completion_tokens", "candidate_tokens">>
TotalAliases == <<"total_token_count", "total_tokens">>

\* getattr(m, a1, None) or getattr(m, a2, None) or ...
RECURSIVE OrChain(_, _)
OrChain(meta, aliases) ==
    IF Len(aliases) = 1 THEN GetAttr(meta, aliases[1], None)
    ELSE PyOr(GetAttr(meta, aliases[1], None), OrChain(meta, Tail(aliases)))

NoUsage == [prompt_tokens |-> None, completion_tokens |-> None, total_tokens |-> None]

UsageOf(resp) ==
    LET usage_meta == PyOr(GetAttr(resp, "usage_metadata", None),
                           GetAttr(resp, "usage", None))
    IN IF Truthy(usage_meta)
       THEN [prompt_tokens |-> OrChain(usage_meta, PromptAliases),
             completion_tokens |-> OrChain(usage_meta, CompletionAliases),
             total_tokens |-> OrChain(usage_meta, TotalAliases)]
       ELSE NoUsage

(* LLMClient.ask: the body of the try block once generate_content returned *)

ModelName == PyStr(<<"m">>)

AskBody(resp) ==
    LET cands == GetAttr(resp, "candidates", None)
    IN IF ~Truthy(cands) THEN Raise(LLMServiceError(MsgNoCandidates))
       ELSE IF cands.k # "list" THEN Raise(PyExc("TypeError"))
       ELSE LET candidate == cands.items[1]
                finish_reason == GetAttr(candidate, "finish_reason", None)
                collected == PartsOf(candidate)
            IN IF collected.t = "raise" THEN collected
               ELSE LET parts == WithFallback(candidate, collected.value)
                        answer == Join(parts)
                    IN IF parts = <<>>
                       THEN Raise(LLMServiceError(MsgNoText(finish_reason)))
                       ELSE IF answer.t = "raise" THEN answer
                       ELSE Return([answer |-> answer.value,
                                    model |-> ModelName,
                                    usage |-> UsageOf(resp)])

\* a single except Exception clause: everything raised is wrapped
AskExceptRewrap(outcome) ==
    IF outcome.t = "raise"
    THEN Raise(LLMServiceError(MsgApiError(outcome.exc)))
    ELSE outcome

\* no except clause at all: whatever was raised escapes
AskExceptBare(outcome) == outcome

\* the except clauses of ask: LLMServiceError is re-raised, anything else wrapped
AskExcept(outcome) ==
    IF outcome.t = "raise" /\ ~IsServiceError(outcome.exc)
    THEN Raise(LLMServiceError(MsgApiError(outcome.exc)))
    ELSE outcome

\* what generate_content did: raised e, or returned the response object
ProviderRaises(e) == [t |-> "raise", exc |-> e]
ProviderReturns(resp) == [t |-> "return", value |-> resp]

\* everything of ask after generate_content was invoked
AskAfterCall(beh) ==
    AskExcept(IF beh.t = "raise" THEN Raise(beh.exc) ELSE AskBody(beh.value))

\* the LLMServiceError at its point of detection, before any except clause
Detected(beh) ==
    IF beh.t = "raise" THEN None
    ELSE LET o == AskBody(beh.value)
         IN IF o.t = "raise" /\ IsServiceError(o.exc) THEN o.exc ELSE None

---------------------------------------------------------------------------
(* LLMClient.__init__ *)

MsgKeyMissing == [text |-> "Gemini API key missing in environment variables.", arg |-> None]
MsgInitFailed(e) == [text |-> "Failed to initialize Gemini client: ", arg |-> e]

\* outcome of LLMClient(): keyPresent is settings.GEMINI_API_KEY being set,
\* sdkAccepts is genai.configure and genai.GenerativeModel not raising
LLMClientInit(keyPresent, sdkAccepts) ==
    IF ~keyPresent THEN Raise(LLMServiceError(MsgKeyMissing))
    ELSE IF ~sdkAccepts THEN Raise(LLMServiceError(MsgInitFailed(PyExc("Exception"))))
    ELSE Return(None)

---------------------------------------------------------------------------
(* AskRequest: validation of the max_tokens member of the body *)

Omitted == [k |-> "omitted"]

AskRequestDefault256(field) ==
    IF field.k = "omitted" THEN Return(PyInt(256))
    ELSE IF field.k = "none" THEN Return(None)
    ELSE IF field.k = "int" /\ field.n >= FIELD_GE /\ field.n <= FIELD_LE THEN Return(field)
    ELSE Raise(PyExc("ValidationError"))

AskRequest(field) ==
    IF field.k = "omitted" THEN Return(PyInt(FIELD_DEFAULT))
    ELSE IF field.k = "none" THEN Return(None)
    ELSE IF field.k = "int" /\ field.n >= FIELD_GE /\ field.n <= FIELD_LE THEN Return(field)
    ELSE Raise(PyExc("ValidationError"))

---------------------------------------------------------------------------
(* ask_llm and the global exception handler *)

MsgInternal == [text |-> "Internal server error. Please try again later.", arg |-> None]
MsgValidation == [text |-> "validation error", arg |-> None]

Http(status, content) == [status |-> status, content |-> content]
NoResponse == Http(0, [detail |-> None])

\* int(v)
ToInt(v) == IF IsInstanceInt(v) THEN Return(IntValue(v)) ELSE Raise(PyExc("ValueError"))

\* lines 50-54: usage_tokens computed from the usage dict
UsageTokens(usage) ==
    LET prompt_tokens == PyOr(usage.prompt_tokens, PyInt(0))
        completion_tokens == PyOr(usage.completion_tokens, PyInt(0))
        total_tokens == usage.total_tokens
        t == ToInt(total_tokens)
        p == ToInt(prompt_tokens)
        c == ToInt(completion_tokens)
    IN IF Truthy(total_tokens)
       THEN (IF t.t = "raise" THEN t ELSE Return(PyInt(t.value)))
       ELSE IF p.t = "raise" THEN p
       ELSE IF c.t = "raise" THEN c
       ELSE Return(PyInt(p.value + c.value))

\* lines 65-71: except LLMServiceError
HandlerServiceError(e) == Http(e.status_code, [detail |-> e.message])

\* lines 73-78: except Exception
HandlerInternalError == Http(HTTP_500_INTERNAL_SERVER_ERROR, [detail |-> MsgInternal])

\* lines 39-78: the response of ask_llm given the outcome of llm_client.ask
AskLlm(outcome) ==
    IF outcome.t = "raise"
    THEN (IF IsServiceError(outcome.exc) THEN HandlerServiceError(outcome.exc)
          ELSE HandlerInternalError)
    ELSE LET llm_result == outcome.value
             usage_tokens == UsageTokens(llm_result.usage)
         IN IF usage_tokens.t = "raise" THEN HandlerInternalError
            ELSE Http(HTTP_200_OK, [answer |-> llm_result.answer,
                                    model |-> llm_result.model,
                                    usage_tokens |-> usage_tokens.value])

\* main.py: llm_service_error_handler
llm_service_error_handler(exc) == Http(exc.status_code, [detail |-> exc.message])

\* the framework's answer to a body that fails AskRequest
ValidationResponse == Http(HTTP_422_UNPROCESSABLE, [detail |-> MsgValidation])

---------------------------------------------------------------------------
(* The server process *)

Requests == 1..NReq

\* the max_tokens member of the bodies the clients post
BodyFields ==
    {Omitted, None, PyStr(<<"x">>)} \cup
    {PyInt(n) : n \in {FIELD_GE - 1, FIELD_GE, FIELD_LE, FIELD_LE + 1}}

\* a candidate whose content is the given list of parts
Candidate(attrs) == PyObj(attrs)
TextPart(t) == PyObj([text |-> PyStr(t)])
BlobPart == PyObj([inline_data |-> PyStr(<<"x">>)])
Content(parts) == PyObj([parts |-> PyList(parts)])
OneText == Candidate([content |-> Content(<<TextPart(<<"a">>)>>), finish_reason |-> PyInt(1)])
OnlyBlob == Candidate([content |-> Content(<<BlobPart>>), finish_reason |-> PyInt(3)])

\* what generate_content does for the requests of the server
ServerResponses ==
    { PyObj([candidates |-> PyList(<<>>)]),
      PyObj([candidates |-> PyInt(1)]),
      PyObj([candidates |-> PyList(<<OnlyBlob>>)]),
      PyObj([candidates |-> PyList(<<OneText>>)]),
      PyObj([candidates |-> PyList(<<OneText>>),
             usage_metadata |-> PyObj([prompt_token_count |-> PyInt(3),
                                       candidates_token_count |-> PyInt(1)])]),
      PyObj([candidates |-> PyList(<<OneText>>),
             usage_metadata |-> PyObj([total_token_count |-> PyInt(20)])]),
      PyObj([candidates |-> PyList(<<OneText>>),
             usage_metadata |-> PyObj([total_token_count |-> PyStr(<<"x">>)])]) }

ServerInit ==
    /\ started = FALSE
    /\ apiKey \in BOOLEAN
    /\ cache = 0
    /\ constructed = 0
    /\ attempts = 0
    /\ failures = 0
    /\ pc = [r \in Requests |-> "idle"]
    /\ body = [r \in Requests |-> Omitted]
    /\ client = [r \in Requests |-> 0]
    /\ sent = [r \in Requests |-> None]
    /\ genCalls = [r \in Requests |-> 0]
    /\ raised = [r \in Requests |-> None]
    /\ response = [r \in Requests |-> NoResponse]

ClampIdle == clampIn = None /\ clampOut = None
AskIdle ==
    /\ askIn = ProviderRaises(PyExc("Exception"))
    /\ askPc = "off"
    /\ askCalls = 0
    /\ askOut = None
    /\ askResp = NoResponse

\* the request is answered: its locals are released
Respond(r, resp) ==
    /\ response' = [response EXCEPT ![r] = resp]
    /\ pc' = [pc EXCEPT ![r] = "done"]
    /\ body' = [body EXCEPT ![r] = Omitted]
    /\ client' = [client EXCEPT ![r] = 0]
    /\ sent' = [sent EXCEPT ![r] = None]

\* a startup that builds the client before serving
StartupEager ==
    /\ ~started
    /\ started' = TRUE
    /\ attempts' = attempts + 1
    /\ LET o == LLMClientInit(apiKey, TRUE)
       IN IF o.t = "raise"
          THEN failures' = failures + 1 /\ UNCHANGED <<cache, constructed>>
          ELSE constructed' = constructed + 1 /\ cache' = constructed + 1
               /\ UNCHANGED failures
    /\ UNCHANGED <<apiKey, pc, body, client, sent, genCalls, raised, response>>
    /\ UNCHANGED <<clampVars, askVars>>

\* main.py startup_event: logs only
Startup ==
    /\ ~started
    /\ started' = TRUE
    /\ UNCHANGED <<apiKey, cache, constructed, attempts, failures, pc, body,
                   client, sent, genCalls, raised, response>>
    /\ UNCHANGED <<clampVars, askVars>>

\* POST /api/v1/ask arrives with a body
Accept(r, field) ==
    /\ started
    /\ pc[r] = "idle"
    /\ pc' = [pc EXCEPT ![r] = "resolve"]
    /\ body' = [body EXCEPT ![r] = field]
    /\ UNCHANGED <<started, apiKey, cache, constructed, attempts, failures,
                   client, sent, genCalls, raised, response>>
    /\ UNCHANGED <<clampVars, askVars>>

\* Depends(get_llm_client): the lru_cache wrapper looks the key up; on a miss
\* it calls LLMClient() with no lock held
DepLookup(r) ==
    /\ pc[r] = "resolve"
    /\ IF cache # 0
       THEN /\ client' = [client EXCEPT ![r] = cache]
            /\ pc' = [pc EXCEPT ![r] = "validate"]
            /\ UNCHANGED attempts
       ELSE /\ pc' = [pc EXCEPT ![r] = "constructing"]
            /\ attempts' = attempts + 1
            /\ UNCHANGED client
    /\ UNCHANGED <<started, apiKey, cache, constructed, failures, body, sent,
                   genCalls, raised, response>>
    /\ UNCHANGED <<clampVars, askVars>>

\* LLMClient() raises: nothing is stored, the global handler answers
ConstructFailsMemo(r, sdkAccepts) ==
    /\ pc[r] = "constructing"
    /\ LET o == LLMClientInit(apiKey, sdkAccepts)
       IN /\ o.t = "raise"
          /\ raised' = [raised EXCEPT ![r] = o.exc]
          /\ Respond(r, llm_service_error_handler(o.exc))
    /\ failures' = failures + 1
    /\ cache' = IF cache = 0 THEN -1 ELSE cache
    /\ UNCHANGED <<started, apiKey, constructed, attempts, genCalls>>
    /\ UNCHANGED <<clampVars, askVars>>

ConstructFails(r, sdkAccepts) ==
    /\ pc[r] = "constructing"
    /\ LET o == LLMClientInit(apiKey, sdkAccepts)
       IN /\ o.t = "raise"
          /\ raised' = [raised EXCEPT ![r] = o.exc]
          /\ Respond(r, llm_service_error_handler(o.exc))
    /\ failures' = failures + 1
    /\ UNCHANGED <<started, apiKey, cache, constructed, attempts, genCalls>>
    /\ UNCHANGED <<clampVars, askVars>>

\* LLMClient() returns: the wrapper stores the instance unless the slot was
\* filled meanwhile, and returns the instance it built
ConstructReturns(r) ==
    /\ pc[r] = "constructing"
    /\ LLMClientInit(apiKey, TRUE).t = "return"
    /\ constructed' = constructed + 1
    /\ cache' = IF cache = 0 THEN constructed + 1 ELSE cache
    /\ client' = [client EXCEPT ![r] = constructed + 1]
    /\ pc' = [pc EXCEPT ![r] = "validate"]
    /\ UNCHANGED <<started, apiKey, attempts, failures, body, sent, genCalls,
                   raised, response>>
    /\ UNCHANGED <<clampVars, askVars>>

\* the body is validated against AskRequest
Validate(r) ==
    /\ pc[r] = "validate"
    /\ IF AskRequest(body[r]).t = "raise"
       THEN Respond(r, ValidationResponse)
       ELSE /\ pc' = [pc EXCEPT ![r] = "handler"]
            /\ UNCHANGED <<body, client, sent, response>>
    /\ UNCHANGED <<started, apiKey, cache, constructed, attempts, failures,
                   genCalls, raised>>
    /\ UNCHANGED <<clampVars, askVars>>

\* ask_llm calls llm_client.ask, which clamps and invokes generate_content
AskCall(r) ==
    /\ pc[r] = "handler"
    /\ sent' = [sent EXCEPT ![r] = _clamp_max_tokens(AskRequest(body[r]).value)]
    /\ genCalls' = [genCalls EXCEPT ![r] = @ + 1]
    /\ pc' = [pc EXCEPT ![r] = "calling"]
    /\ UNCHANGED <<started, apiKey, cache, constructed, attempts, failures,
                   body, client, raised, response>>
    /\ UNCHANGED <<clampVars, askVars>>

\* generate_content ends as beh; the rest of ask and of ask_llm runs
Finish(r, beh) ==
    /\ pc[r] = "calling"
    /\ raised' = [raised EXCEPT ![r] = Detected(beh)]
    /\ Respond(r, AskLlm(AskAfterCall(beh)))
    /\ UNCHANGED <<started, apiKey, cache, constructed, attempts, failures,
                   genCalls>>
    /\ UNCHANGED <<clampVars, askVars>>

ServerBehaviours ==
    {ProviderRaises(PyExc("Exception"))} \cup
    {ProviderReturns(resp) : resp \in ServerResponses}

Next ==
    \/ Startup
    \/ \E r \in Requests, field \in BodyFields : Accept(r, field)
    \/ \E r \in Requests : DepLookup(r)
    \/ \E r \in Requests, sdkAccepts \in BOOLEAN : ConstructFails(r, sdkAccepts)
    \/ \E r \in Requests : ConstructReturns(r)
    \/ \E r \in Requests : Validate(r)
    \/ \E r \in Requests : AskCall(r)
    \/ \E r \in Requests, beh \in ServerBehaviours : Finish(r, beh)

Init == ServerInit /\ ClampIdle /\ AskIdle

Spec == Init /\ [][Next]_vars

---------------------------------------------------------------------------
(* _clamp_max_tokens applied to one argument *)

ClampInts ==
    ((MIN_ALLOWED_TOKENS - 1 - MaxProbe)..(MIN_ALLOWED_TOKENS + MaxProbe)) \cup
    ((MAX_ALLOWED_TOKENS - MaxProbe)..(MAX_ALLOWED_TOKENS + MaxProbe)) \cup
    {5000, 2 * MAX_ALLOWED_TOKENS}

ClampInputs ==
    {None, PyStr(<<"x">>), PyFloat(5), PyBool(TRUE), PyBool(FALSE)} \cup
    {PyInt(n) : n \in ClampInts}

ServerIdle == ServerInit /\ apiKey = TRUE

ClampInit ==
    /\ clampIn \in ClampInputs
    /\ clampOut = None
    /\ ServerIdle
    /\ AskIdle

ClampApply ==
    /\ clampOut = None
    /\ clampOut' = _clamp_max_tokens(clampIn)
    /\ UNCHANGED <<clampIn, serverVars, askVars>>

ClampNext == ClampApply

ClampSpec == ClampInit /\ [][ClampNext]_vars

---------------------------------------------------------------------------
(* One call of llm_client.ask by ask_llm, over the provider's behaviours *)

Absent == [k |-> "absent"]

\* the object whose attributes are the fields that are not Absent
MkObj(fields) ==
    PyObj([n \in {m \in DOMAIN fields : fields[m] # Absent} |-> fields[n]])

PartKinds ==
    {BlobPart, PyObj([text |-> None]), TextPart(<<>>), TextPart(<<"a">>), TextPart(<<"b">>)}

PartLists == UNION {[1..n -> PartKinds] : n \in 0..MaxParts}

ContentOpts ==
    {Absent, PyObj(NoAttrs), PyObj([parts |-> PyInt(1)])} \cup
    {Content(ps) : ps \in PartLists}

FallbackOpts == {Absent, PyStr(<<>>), PyStr(<<"c">>)}
FinishOpts == {Absent, PyInt(1), PyInt(3)}

FirstCandidates ==
    {MkObj([content |-> c, text |-> t, finish_reason |-> f]) :
        c \in ContentOpts, t \in FallbackOpts, f \in FinishOpts}

OtherCandidates ==
    {OnlyBlob, Candidate([content |-> Content(<<TextPart(<<"z">>)>>)])}

Rests == UNION {[1..n -> OtherCandidates] : n \in 0..(MaxCands - 1)}

TextResponses ==
    {PyObj(NoAttrs), PyObj([candidates |-> None]),
     PyObj([candidates |-> PyList(<<>>)]), PyObj([candidates |-> PyInt(1)])} \cup
    {PyObj([candidates |-> PyList(<<c>> \o rest)]) :
        c \in FirstCandidates, rest \in Rests}

AliasNames ==
    {PromptAliases[i] : i \in 1..Len(PromptAliases)} \cup
    {CompletionAliases[i] : i \in 1..Len(CompletionAliases)} \cup
    {TotalAliases[i] : i \in 1..Len(TotalAliases)}

TokenValues == {PyInt(n) : n \in 0..MaxTok}

UsageMetas == UNION {[A -> TokenValues] : A \in SUBSET AliasNames}

UsageResponses ==
    {PyObj([candidates |-> PyList(<<OneText>>), usage_metadata |-> PyObj(m)]) :
        m \in UsageMetas} \cup
    {PyObj([candidates |-> PyList(<<OneText>>), usage |-> PyObj(m)]) :
        m \in UsageMetas}

AskBehaviours ==
    {ProviderRaises(PyExc("Exception"))} \cup
    {ProviderReturns(resp) : resp \in TextResponses \cup UsageResponses}

AskInit ==
    /\ askIn \in AskBehaviours
    /\ askPc = "start"
    /\ askCalls = 0
    /\ askOut = None
    /\ askResp = NoResponse
    /\ ServerIdle
    /\ ClampIdle

\* ask is entered and generate_content invoked
AskInvoke ==
    /\ askPc = "start"
    /\ askPc' = "called"
    /\ askCalls' = askCalls + 1
    /\ UNCHANGED <<askIn, askOut, askResp, serverVars, clampVars>>

\* generate_content ends as askIn; ask returns or raises
AskEnd ==
    /\ askPc = "called"
    /\ askPc' = "ended"
    /\ askOut' = AskAfterCall(askIn)
    /\ UNCHANGED <<askIn, askCalls, askResp, serverVars, clampVars>>

\* ask_llm turns the outcome into the response
AskRespond ==
    /\ askPc = "ended"
    /\ askPc' = "answered"
    /\ askResp' = AskLlm(askOut)
    /\ UNCHANGED <<askIn, askCalls, askOut, serverVars, clampVars>>

AskNext == AskInvoke \/ AskEnd \/ AskRespond

AskSpec == AskInit /\ [][AskNext]_vars

---------------------------------------------------------------------------
(* Properties of _clamp_max_tokens (ClampSpec) *)

\* C1: _clamp_max_tokens always yields a value: 1024 for None and for a
\* non-integer, 1 for an integer below 1, 100000 for an integer above 100000,
\* the argument itself otherwise; so an integer resolves into [1, 100000].
C1_ClampTotal ==
    clampOut # None =>
        /\ IsInstanceInt(clampOut)
        /\ ~IsInstanceInt(clampIn) => clampOut = PyInt(1024)
        /\ IsInstanceInt(clampIn) =>
            /\ IntValue(clampIn) < 1 => clampOut = PyInt(1)
            /\ IntValue(clampIn) > 100000 => clampOut = PyInt(100000)
            /\ IntValue(clampIn) \in 1..100000 => clampOut = clampIn
            /\ IntValue(clampOut) \in 1..100000

C1_Witness == clampIn = PyInt(200000) /\ clampOut = PyInt(100000)

---------------------------------------------------------------------------
(* Properties of LLMClient.ask and of the response built from it (AskSpec) *)

AskOver == askPc \in {"ended", "answered"}

\* the response exposes no candidate
ZeroCandidates(beh) ==
    /\ beh.t = "return"
    /\ LET c == GetAttr(beh.value, "candidates", None)
       IN c = None \/ c = PyList(<<>>)

\* C7: every call of ask invokes generate_content exactly once and ends in one
\* outcome, a NormalizedResult or an LLMServiceError; nothing else escapes, and
\* a response without candidates ends in the no-candidates LLMServiceError.
C7_OneCallOneOutcome ==
    /\ askPc = "start" => askCalls = 0 /\ askOut = None
    /\ askPc = "called" => askCalls = 1 /\ askOut = None
    /\ AskOver =>
        /\ askCalls = 1
        /\ askOut.t \in {"return", "raise"}
        /\ askOut.t = "raise" => IsServiceError(askOut.exc)
        /\ askOut.t = "return" => DOMAIN askOut.value = {"answer", "model", "usage"}
        /\ ZeroCandidates(askIn) =>
            /\ askOut.t = "raise"
            /\ IsServiceError(askOut.exc)
            /\ askOut.exc.message = MsgNoCandidates

C7_Witness ==
    /\ askPc = "ended"
    /\ askIn = ProviderReturns(PyObj([candidates |-> PyList(<<>>)]))
    /\ askOut.t = "raise"
    /\ askOut.exc.message = MsgNoCandidates

\* the response has a first candidate whose parts, if any, are a list
HasFirstCandidate(beh) ==
    /\ beh.t = "return"
    /\ LET c == GetAttr(beh.value, "candidates", None)
       IN /\ c.k = "list"
          /\ Len(c.items) >= 1
          /\ GetAttr(GetAttr(c.items[1], "content", None), "parts", None).k
                \in {"none", "list"}

FirstCandidate(beh) == beh.value.attrs["candidates"].items[1]

PartListOf(c) ==
    LET ps == GetAttr(GetAttr(c, "content", None), "parts", None)
    IN IF ps.k = "list" THEN ps.items ELSE <<>>

NonEmptyText(p) ==
    /\ HasAttr(p, "text")
    /\ p.attrs["text"].k = "str"
    /\ p.attrs["text"].s # <<>>

\* the texts of ps, left to right, one after the other
ConcatTexts(ps) ==
    LET F[i \in 0..Len(ps)] ==
            IF i = 0 THEN <<>> ELSE F[i - 1] \o ps[i].attrs["text"].s
    IN F[Len(ps)]

\* C8: the answer is the texts of the first candidate's parts that expose a
\* non-empty text, in order, with no separator; with no such part it is the
\* candidate's non-empty text accessor; with neither, ask raises the no-text
\* LLMServiceError carrying the finish reason. Every answer is non-empty.
C8_AnswerFromFirstCandidate ==
    AskOver =>
        /\ askOut.t = "return" => askOut.value.answer.s # <<>>
        /\ HasFirstCandidate(askIn) =>
            LET c == FirstCandidate(askIn)
                texts == SelectSeq(PartListOf(c), NonEmptyText)
                fb == GetAttr(c, "text", None)
                fbText == fb.k = "str" /\ fb.s # <<>>
            IN /\ texts # <<>> =>
                    /\ askOut.t = "return"
                    /\ askOut.value.answer = PyStr(ConcatTexts(texts))
               /\ texts = <<>> /\ fbText =>
                    /\ askOut.t = "return"
                    /\ askOut.value.answer = fb
               /\ texts = <<>> /\ ~fbText =>
                    /\ askOut.t = "raise"
                    /\ IsServiceError(askOut.exc)
                    /\ askOut.exc.message.text = "Gemini returned no text (finish_reason="
                    /\ askOut.exc.message.arg = GetAttr(c, "finish_reason", None)

C8_Witness ==
    /\ askPc = "ended"
    /\ HasFirstCandidate(askIn)
    /\ PartListOf(FirstCandidate(askIn)) = <<TextPart(<<"a">>), BlobPart, TextPart(<<"b">>)>>
    /\ askOut.t = "return"
    /\ askOut.value.answer = PyStr(<<"a", "b">>)

\* the usage-metadata object of the response, None without one
UsageMetaOf(resp) ==
    IF GetAttr(resp, "usage_metadata", None) # None
    THEN GetAttr(resp, "usage_metadata", None)
    ELSE GetAttr(resp, "usage", None)

\* the value of the first alias the object exposes, None if it exposes none
FirstExposed(meta, aliases) ==
    IF \E i \in 1..Len(aliases) : HasAttr(meta, aliases[i])
    THEN LET i == CHOOSE j \in 1..Len(aliases) :
                    /\ HasAttr(meta, aliases[j])
                    /\ \A h \in 1..(j - 1) : ~HasAttr(meta, aliases[h])
         IN meta.attrs[aliases[i]]
    ELSE None

\* C9: each extracted counter is the value of the first alias the
\* usage-metadata object exposes, 0 included, and is None only when no alias
\* is exposed or the response has no usage metadata.
C9_FirstAliasWins ==
    AskOver /\ askOut.t = "return" =>
        LET meta == UsageMetaOf(askIn.value)
            usage == askOut.value.usage
        IN /\ usage.prompt_tokens = FirstExposed(meta, PromptAliases)
           /\ usage.completion_tokens = FirstExposed(meta, CompletionAliases)
           /\ usage.total_tokens = FirstExposed(meta, TotalAliases)

\* C2: usage_tokens of a successful response is total_tokens when present,
\* prompt_tokens + completion_tokens when total_tokens is absent and both are
\* present, and null when all three counters are absent.
C2_UsageTokensDerived ==
    askPc = "answered" /\ askOut.t = "return" =>
        LET usage == askOut.value.usage
            p == usage.prompt_tokens
            c == usage.completion_tokens
            t == usage.total_tokens
        IN /\ askResp.status = 200
           /\ t # None => askResp.content.usage_tokens = t
           /\ t = None /\ p # None /\ c # None =>
                askResp.content.usage_tokens = PyInt(p.n + c.n)
           /\ t = None /\ p = None /\ c = None =>
                askResp.content.usage_tokens = None

---------------------------------------------------------------------------
(* Properties of the server process (Spec) *)

\* C3: LLMClient is successfully constructed at most once per process, and
\* every request holding a client holds the memoized instance.
C3_ConstructedAtMostOnce ==
    /\ constructed <= 1
    /\ \A r \in Requests : client[r] # 0 /\ cache # 0 => client[r] = cache

\* C4: a construction that raised is never memoized: it leaves the cache as it
\* was, a lookup that finds the cache empty constructs again, and once an
\* instance is memoized it stays and later lookups return it without
\* constructing.
C4_FailureNotMemoized ==
    [][ /\ failures' > failures => cache' = cache
        /\ cache' # 0 => cache' \in 1..constructed'
        /\ cache # 0 => cache' = cache
        /\ \A r \in Requests :
             pc[r] = "resolve" /\ pc'[r] # "resolve" =>
                IF cache = 0
                THEN pc'[r] = "constructing" /\ attempts' = attempts + 1
                ELSE /\ pc'[r] = "validate"
                     /\ client'[r] = cache
                     /\ attempts' = attempts
                     /\ constructed' = constructed ]_vars

C4_Witness ==
    /\ failures >= 1
    /\ constructed = 1
    /\ cache = 1
    /\ \E r \in Requests : pc[r] = "validate" /\ client[r] = cache

\* C5 as stated: the first construction of the client is attempted before the
\* first POST /api/v1/ask is accepted.
C5_ConstructedBeforeFirstRequest ==
    (\E r \in Requests : pc[r] # "idle") => attempts >= 1

\* C5 as amended: nothing is constructed at startup; a construction is
\* attempted only while resolving get_llm_client for an accepted request, and
\* its failure is an LLMServiceError answered to that request.
C5_ConstructedOnFirstUse ==
    /\ attempts = Cardinality({r \in Requests : pc[r] = "constructing"})
                    + failures + constructed
    /\ attempts <= Cardinality({r \in Requests : pc[r] \notin {"idle", "resolve"}})
    /\ (\A r \in Requests : pc[r] = "idle") => attempts = 0 /\ cache = 0
    /\ failures = Cardinality({r \in Requests :
            /\ pc[r] = "done"
            /\ raised[r] # None
            /\ raised[r].message.text \in {MsgKeyMissing.text, MsgInitFailed(None).text}})

C5_Witness ==
    /\ started
    /\ attempts = 1
    /\ \E r \in Requests : pc[r] = "constructing"

\* C6: an LLMServiceError raised by the construction of the client or by the
\* checks of ask reaches the HTTP response with its own status_code and
\* message as {"detail": message}, never as the generic 500.
C6_ServiceErrorUnchanged ==
    \A r \in Requests :
        pc[r] = "done" /\ raised[r] # None =>
            /\ response[r].status = raised[r].status_code
            /\ response[r].content = [detail |-> raised[r].message]
            /\ response[r] # HandlerInternalError

C6_Witness ==
    \E r1, r2 \in Requests :
        /\ pc[r1] = "done" /\ pc[r2] = "done"
        /\ raised[r1] # None /\ raised[r2] # None
        /\ raised[r1].message = MsgInitFailed(PyExc("Exception"))
        /\ raised[r2].message = MsgNoText(PyInt(3))
        /\ response[r2].content = [detail |-> MsgNoText(PyInt(3))]

=============================================================================
